---------------------------- MODULE Spec2Model ----------------------------
(***************************************************************************)
(* A model of the nod disc-image library: the file system table view       *)
(* (nod/src/fst.rs), the NKit header (nod/src/io/nkit.rs) and the parts of *)
(* nodtool (nodtool/src/main.rs) that drive them.                          *)
(*                                                                         *)
(* Conventions.  A byte is a number in 0..255, a byte buffer a sequence of *)
(* bytes.  Rust indices are 0-based and TLA+ sequences 1-based: element i  *)
(* of a Rust slice s is s[i + 1] here.  A string is the sequence of its    *)
(* Unicode code points.  usize is taken to be 64 bits wide, so that no sum *)
(* of a u32 and an index overflows.  Option<T> is a record [some, val].    *)
(***************************************************************************)
EXTENDS Integers, Sequences, FiniteSets, TLC

VARIABLES
    pc,         \* position of the caller: which call runs or has returned
    buf,        \* Fst::new: the input buffer
    aligned,    \* Fst::new: whether buf starts at a 4-byte aligned address
    fst,        \* Fst::new: the returned Result<Fst, &str>
    arg,        \* Fst::get_name: index of the node whose name is asked
    name_res,   \* Fst::get_name: the returned Result<Cow<str>, String>
    it_idx,     \* FstIter: the field idx
    it_out,     \* FstIter: the items next() has returned so far, in order
    it_done,    \* FstIter: whether next() has returned None
    path,       \* Fst::find: the argument
    split,      \* Fst::find: segments the split iterator has yet to give
    current,    \* Fst::find: local variable current
    idx,        \* Fst::find: local variable idx
    stop_at,    \* Fst::find: local variable stop_at
    trail,      \* Fst::find: indices of the nodes matched so far (history)
    find_res,   \* Fst::find: the returned Option<(usize, &Node)>
    hdr,        \* NKitHeader::apply: self
    meta,       \* NKitHeader::apply: the DiscMeta
    meta0,      \* NKitHeader::apply: the DiscMeta as it was before the call
    meta1,      \* NKitHeader::apply: the DiscMeta as it was before a second call
    reader,     \* NKitHeader::read_from: the reader, its bytes and its position
    reader0,    \* NKitHeader::read_from: the reader as it was before the call
    block_size, \* NKitHeader::read_from: the argument block_size
    has_junk_bits,   \* NKitHeader::read_from: the argument has_junk_bits
    read_res,   \* NKitHeader::read_from: the returned io::Result<NKitHeader>
    try_res,    \* NKitHeader::try_read_from: the returned Option<NKitHeader>
    block,      \* NKitHeader::is_junk_block: the argument
    junk_res,   \* NKitHeader::is_junk_block: the returned Option<bool>
    disc_size,  \* convert_and_verify: the size of the disc
    md5_arg,    \* convert_and_verify: the argument md5 (a fourth digest worker)
    file,       \* convert_and_verify: whether there is an output file
    m_pc,       \* convert_and_verify: where the main thread stands
    m_i,        \* convert_and_verify: the digest thread the main thread is at
    total_read, \* convert_and_verify: local variable total_read
    arc,        \* convert_and_verify: the chunk read last, its offset and length
    w_tx,       \* the writer's channel: whether the sender is alive
    w_chan,     \* the writer's channel: the chunks it holds
    w_thread,   \* the writer thread: where it stands
    w_data,     \* the writer thread: the chunk it received last
    w_recvd,    \* the writer thread: the chunks it has received, in order (history)
    total_written,  \* the writer thread: local variable total_written
    digest_threads, \* the digest workers: sender alive, channel, position, chunks received
    path_segments,  \* extract_partition: local variable path_segments, (name, end) pairs
    created         \* extract_partition: the directories and files created, in order (history)

vars == <<pc, buf, aligned, fst, arg, name_res, it_idx, it_out, it_done,
          path, split, current, idx, stop_at, trail, find_res,
          hdr, meta, meta0, meta1,
          reader, reader0, block_size, has_junk_bits, read_res, try_res,
          block, junk_res,
          disc_size, md5_arg, file, m_pc, m_i, total_read, arc,
          w_tx, w_chan, w_thread, w_data, w_recvd, total_written, digest_threads,
          path_segments, created>>

fstVars == <<buf, aligned, fst>>
nameVars == <<arg, name_res>>
iterVars == <<it_idx, it_out, it_done>>
findVars == <<path, split, current, idx, stop_at, trail, find_res>>
nkitVars == <<hdr, meta, meta0, meta1>>
readVars == <<reader, reader0, block_size, has_junk_bits, read_res, try_res,
              block, junk_res>>
mainVars == <<disc_size, md5_arg, file, m_pc, m_i, total_read, arc>>
writerVars == <<w_tx, w_chan, w_thread, w_data, w_recvd, total_written>>
pipeVars == <<mainVars, writerVars, digest_threads>>
extractVars == <<path_segments, created>>

---------------------------------------------------------------------------
(* Option<T> *)

None == [some |-> FALSE, val |-> 0]

Some(v) == [some |-> TRUE, val |-> v]

(* Sequences over S of length lo..hi. *)
SeqsBetween(S, lo, hi) == UNION {[1..n -> S] : n \in lo..hi}

---------------------------------------------------------------------------
(* Node: 12 bytes, big-endian (fst.rs, struct Node) *)

NodeSize == 12

U32(b, i) == b[i] * 16777216 + b[i + 1] * 65536 + b[i + 2] * 256 + b[i + 3]

U32Bytes(v) ==
    <<(v \div 16777216) % 256, (v \div 65536) % 256, (v \div 256) % 256, v % 256>>

(* Node::name_offset: the u24 of bytes 1..3. *)
name_offset(b) == b[2] * 65536 + b[3] * 256 + b[4]

(* The node read from the 12 bytes of b that start at (0-based) offset o. *)
NodeFrom(b, o) ==
    LET x == SubSeq(b, o + 1, o + NodeSize)
    IN  [kind |-> x[1], name_offset |-> name_offset(x),
         offset |-> U32(x, 5), length |-> U32(x, 9)]

(* AsBytes for a Node. *)
NodeBytes(n) ==
    <<n.kind>> \o SubSeq(U32Bytes(n.name_offset), 2, 4)
        \o U32Bytes(n.offset) \o U32Bytes(n.length)

RECURSIVE NodesBytes(_)
NodesBytes(ns) ==
    IF ns = <<>> THEN <<>> ELSE NodeBytes(Head(ns)) \o NodesBytes(Tail(ns))

is_file(n) == n.kind = 0

is_dir(n) == n.kind = 1

kind(n) == CASE n.kind = 0 -> "File" [] n.kind = 1 -> "Directory" [] OTHER -> "Invalid"

length(n) == n.length

---------------------------------------------------------------------------
(* Fst::new *)

Ok(v) == [ok |-> TRUE, val |-> v, err |-> ""]

Err(e) == [ok |-> FALSE, val |-> <<>>, err |-> e]

(* A call that panicked instead of returning. *)
Panic == [ok |-> FALSE, val |-> <<>>, err |-> "panic"]

(* Node::ref_from_prefix: the buffer must hold one node and be aligned. *)
ref_from_prefix(b, al) ==
    IF Len(b) >= NodeSize /\ al THEN Some(NodeFrom(b, 0)) ELSE None

(* Node::slice_from: the buffer must be a whole number of nodes and aligned. *)
slice_from(b, al) ==
    IF Len(b) % NodeSize = 0 /\ al
    THEN Some([i \in 1..(Len(b) \div NodeSize) |-> NodeFrom(b, (i - 1) * NodeSize)])
    ELSE None

(* The rest of Fst::new once the string table is known to start inside    *)
(* the buffer: split_at panics past the end, unwrap panics on None.        *)
new_split(b, al, string_base) ==
    IF string_base > Len(b) THEN Panic
    ELSE LET nodes == slice_from(SubSeq(b, 1, string_base), al)
         IN  IF ~nodes.some THEN Panic
             ELSE Ok([nodes |-> nodes.val,
                      string_table |-> SubSeq(b, string_base + 1, Len(b))])

new_accepting_empty_table(b, al) ==
    LET root_node == ref_from_prefix(b, al)
    IN  IF ~root_node.some THEN Err("FST root node not found")
        ELSE LET string_base == length(root_node.val) * NodeSize
             IN  IF string_base > Len(b)
                 THEN Err("FST string table out of bounds")
                 ELSE new_split(b, al, string_base)

new(b, al) ==
    LET root_node == ref_from_prefix(b, al)
    IN  IF ~root_node.some THEN Err("FST root node not found")
        ELSE LET string_base == length(root_node.val) * NodeSize
             IN  IF string_base >= Len(b)
                 THEN Err("FST string table out of bounds")
                 ELSE new_split(b, al, string_base)

---------------------------------------------------------------------------
(* Fst::get_name *)

(* Index jis0208 of the Encoding Standard, on the one row that the lead    *)
(* byte 0x83 with a trail byte 0x40..0x96 selects: pointers 376..461 are   *)
(* the katakana U+30A1..U+30F6.  0 stands for "no code point".  The bytes  *)
(* the model draws names from keep every pointer inside this row.          *)
Jis0208(ptr) == IF ptr \in 376..461 THEN 12449 + (ptr - 376) ELSE 0

Replacement == 65533

(* encoding_rs SHIFT_JIS.decode without a byte order mark (no name of the  *)
(* model starts with EF BB BF, FF FE or FE FF): the Shift_JIS decoder of   *)
(* the Encoding Standard, run from byte i of b with the pending lead byte  *)
(* lead (0: none).  Gives the code points and whether any sequence was     *)
(* malformed.                                                              *)
RECURSIVE SjisRun(_, _, _)
SjisRun(b, i, lead) ==
    IF i > Len(b)
    THEN IF lead # 0 THEN [chars |-> <<Replacement>>, errors |-> TRUE]
                     ELSE [chars |-> <<>>, errors |-> FALSE]
    ELSE LET c == b[i]
             good(cp, j, l) == LET r == SjisRun(b, j, l)
                               IN  [chars |-> <<cp>> \o r.chars, errors |-> r.errors]
             bad(j) == LET r == SjisRun(b, j, 0)
                       IN  [chars |-> <<Replacement>> \o r.chars, errors |-> TRUE]
         IN  IF lead # 0
             THEN LET off == IF c < 127 THEN 64 ELSE 65
                      leadoff == IF lead < 160 THEN 129 ELSE 193
                      ptr == (lead - leadoff) * 188 + c - off
                      cp == IF c \in 64..126 \/ c \in 128..252
                            THEN IF ptr \in 8836..10715 THEN 57344 - 8836 + ptr
                                                        ELSE Jis0208(ptr)
                            ELSE 0
                  IN  IF cp # 0 THEN good(cp, i + 1, 0)
                      ELSE IF c < 128 THEN bad(i)     \* the ASCII byte is read again
                      ELSE bad(i + 1)
             ELSE IF c <= 128 THEN good(c, i + 1, 0)
             ELSE IF c \in 161..223 THEN good(65377 - 161 + c, i + 1, 0)
             ELSE IF c \in 129..159 \/ c \in 224..252 THEN SjisRun(b, i + 1, c)
             ELSE bad(i + 1)

decode(b) == SjisRun(b, 1, 0)

(* Position (1-based) of the first NUL of b at or after position i; 0 if none. *)
RECURSIVE NulPos(_, _)
NulPos(b, i) ==
    IF i > Len(b) THEN 0 ELSE IF b[i] = 0 THEN i ELSE NulPos(b, i + 1)

from_bytes_with_nul(b) ==
    LET p == NulPos(b, 1)
    IN  IF p = 0 THEN Err("not null-terminated") ELSE Ok(SubSeq(b, 1, p))

(* CStr::from_bytes_until_nul followed by to_bytes: the bytes before the first NUL. *)
from_bytes_until_nul(b) ==
    LET p == NulPos(b, 1)
    IN  IF p = 0 THEN Err("not null-terminated") ELSE Ok(SubSeq(b, 1, p - 1))

OutOfBounds == "FST: name offset out of bounds"

NotNulTerminated == "FST: name not null-terminated"

InvalidEncoding == "FST: Failed to decode name"

(* string_table.get(name_offset..): None only when the offset is past the end. *)
get_from(st, off) == IF off > Len(st) THEN None ELSE Some(SubSeq(st, off + 1, Len(st)))

get_name(f, node) ==
    LET name_buf == get_from(f.string_table, node.name_offset)
    IN  IF ~name_buf.some THEN Err(OutOfBounds)
        ELSE LET c_string == from_bytes_until_nul(name_buf.val)
             IN  IF ~c_string.ok THEN Err(NotNulTerminated)
                 ELSE LET d == decode(c_string.val)
                      IN  IF d.errors THEN Err(InvalidEncoding) ELSE Ok(d.chars)

---------------------------------------------------------------------------
(* FstIter *)

(* Fst::iter *)
iter == [idx |-> 1]

next_until_error(f, it) ==
    IF it.idx >= Len(f.nodes) \/ ~get_name(f, f.nodes[it.idx + 1]).ok
    THEN [it |-> it, item |-> None]
    ELSE [it |-> [idx |-> it.idx + 1],
          item |-> Some([idx |-> it.idx, node |-> f.nodes[it.idx + 1],
                         name |-> get_name(f, f.nodes[it.idx + 1])])]

(* FstIter::next: the iterator afterwards and the returned item. *)
next(f, it) ==
    IF it.idx >= Len(f.nodes)
    THEN [it |-> it, item |-> None]
    ELSE [it |-> [idx |-> it.idx + 1],
          item |-> Some([idx |-> it.idx, node |-> f.nodes[it.idx + 1],
                         name |-> get_name(f, f.nodes[it.idx + 1])])]

---------------------------------------------------------------------------
(* Fst::find *)

Slash == 47

RECURSIVE TrimStart(_)
TrimStart(s) == IF s # <<>> /\ Head(s) = Slash THEN TrimStart(Tail(s)) ELSE s

RECURSIVE TrimEnd(_)
TrimEnd(s) ==
    IF s # <<>> /\ s[Len(s)] = Slash THEN TrimEnd(SubSeq(s, 1, Len(s) - 1)) ELSE s

(* str::trim_matches('/') *)
trim_matches(s) == TrimEnd(TrimStart(s))

(* str::split('/'), collected: at least one segment, empty ones kept. *)
RECURSIVE split_slash(_)
split_slash(s) ==
    LET p == CHOOSE i \in 1..(Len(s) + 1) :
                 /\ i = Len(s) + 1 \/ s[i] = Slash
                 /\ \A j \in 1..(i - 1) : s[j] # Slash
    IN  IF p = Len(s) + 1 THEN <<s>>
        ELSE <<SubSeq(s, 1, p - 1)>> \o split_slash(SubSeq(s, p + 1, Len(s)))

to_ascii_lowercase(c) == IF c \in 65..90 THEN c + 32 ELSE c

eq_ignore_ascii_case(s, t) ==
    /\ Len(s) = Len(t)
    /\ \A i \in 1..Len(s) : to_ascii_lowercase(s[i]) = to_ascii_lowercase(t[i])

(* The test of the loop's first if: the name decodes and equals the segment. *)
name_matches(f, node, seg) ==
    LET name == get_name(f, node)
    IN  name.ok /\ eq_ignore_ascii_case(name.val, seg)

(* The locals of find before the loop. *)
find_begin(p) ==
    LET segs == split_slash(trim_matches(p))
    IN  [status |-> "run", split |-> Tail(segs), current |-> Head(segs),
         idx |-> 1, stop_at |-> None, trail |-> <<>>, res |-> None]

(* The check that ends each turn of the loop. *)
stop_check(l) ==
    IF l.stop_at.some /\ l.idx >= l.stop_at.val
    THEN [l EXCEPT !.status = "notfound"] ELSE l

find_step_no_skip(f, l) ==
    IF l.idx >= Len(f.nodes) THEN [l EXCEPT !.status = "notfound"]
    ELSE LET node == f.nodes[l.idx + 1]
         IN  IF name_matches(f, node, l.current)
             THEN IF l.split # <<>>
                  THEN stop_check([l EXCEPT !.current = Head(l.split),
                                            !.split = Tail(l.split),
                                            !.idx = l.idx + 1,
                                            !.stop_at = Some(length(node) + l.idx + 1),
                                            !.trail = Append(l.trail, l.idx)])
                  ELSE [l EXCEPT !.status = "found",
                                 !.res = Some([idx |-> l.idx, node |-> node])]
             ELSE stop_check([l EXCEPT !.idx = l.idx + 1])

find_step_skip_past_end(f, l) ==
    IF l.idx >= Len(f.nodes) THEN [l EXCEPT !.status = "notfound"]
    ELSE LET node == f.nodes[l.idx + 1]
         IN  IF name_matches(f, node, l.current)
             THEN IF l.split # <<>>
                  THEN stop_check([l EXCEPT !.current = Head(l.split),
                                            !.split = Tail(l.split),
                                            !.idx = l.idx + 1,
                                            !.stop_at = Some(length(node) + l.idx + 1),
                                            !.trail = Append(l.trail, l.idx)])
                  ELSE [l EXCEPT !.status = "found",
                                 !.res = Some([idx |-> l.idx, node |-> node])]
             ELSE IF is_dir(node)
             THEN stop_check([l EXCEPT !.idx = length(node) + 1])
             ELSE stop_check([l EXCEPT !.idx = l.idx + 1])

(* One turn of the while loop of find on the locals l. *)
find_step(f, l) ==
    IF l.idx >= Len(f.nodes) THEN [l EXCEPT !.status = "notfound"]
    ELSE LET node == f.nodes[l.idx + 1]
         IN  IF name_matches(f, node, l.current)
             THEN IF l.split # <<>>
                  THEN stop_check([l EXCEPT !.current = Head(l.split),
                                            !.split = Tail(l.split),
                                            !.idx = l.idx + 1,
                                            !.stop_at = Some(length(node) + l.idx + 1),
                                            !.trail = Append(l.trail, l.idx)])
                  ELSE [l EXCEPT !.status = "found",
                                 !.res = Some([idx |-> l.idx, node |-> node])]
             ELSE IF is_dir(node)
             THEN stop_check([l EXCEPT !.idx = length(node)])
             ELSE stop_check([l EXCEPT !.idx = l.idx + 1])

---------------------------------------------------------------------------
(* NKitHeader::apply *)

(* Option::or *)
or(a, b) == IF a.some THEN a ELSE b

apply_assigning_lossless(h, m) ==
    [needs_hash_recovery |-> m.needs_hash_recovery \/ h.junk_bits.some,
     lossless |-> h.size.some /\ h.junk_bits.some,
     disc_size |-> or(m.disc_size, h.size),
     crc32 |-> h.crc32, md5 |-> h.md5, sha1 |-> h.sha1, xxhash64 |-> h.xxhash64]

apply_assigning_recovery(h, m) ==
    [needs_hash_recovery |-> h.junk_bits.some,
     lossless |-> m.lossless \/ (h.size.some /\ h.junk_bits.some),
     disc_size |-> or(m.disc_size, h.size),
     crc32 |-> h.crc32, md5 |-> h.md5, sha1 |-> h.sha1, xxhash64 |-> h.xxhash64]

apply_preferring_header_size(h, m) ==
    [needs_hash_recovery |-> m.needs_hash_recovery \/ h.junk_bits.some,
     lossless |-> m.lossless \/ (h.size.some /\ h.junk_bits.some),
     disc_size |-> or(h.size, m.disc_size),
     crc32 |-> h.crc32, md5 |-> h.md5, sha1 |-> h.sha1, xxhash64 |-> h.xxhash64]

(* The DiscMeta m after h.apply(&mut m). *)
apply(h, m) ==
    [needs_hash_recovery |-> m.needs_hash_recovery \/ h.junk_bits.some,
     lossless |-> m.lossless \/ (h.size.some /\ h.junk_bits.some),
     disc_size |-> or(m.disc_size, h.size),
     crc32 |-> h.crc32, md5 |-> h.md5, sha1 |-> h.sha1, xxhash64 |-> h.xxhash64]

---------------------------------------------------------------------------
(* Readers (nod/src/util/read.rs, std::io::Read) *)

(* A reader is the bytes it reads from and the position it has reached. A  *)
(* number of 64 bits is held as its eight base-256 digits, most            *)
(* significant first, a CRC-32 as its four.                                *)
UnexpectedEof == "UnexpectedEof"

InvalidData == "InvalidData"

(* Read::read_exact: n bytes or an error; after an error the reader is at  *)
(* its end.                                                                *)
read_exact(r, n) ==
    IF r.pos + n <= Len(r.data)
    THEN [ok |-> TRUE, val |-> SubSeq(r.data, r.pos + 1, r.pos + n),
          r |-> [r EXCEPT !.pos = r.pos + n]]
    ELSE [ok |-> FALSE, val |-> <<>>, r |-> [r EXCEPT !.pos = Len(r.data)]]

(* util::read::read_u16_be *)
read_u16_be(r) ==
    LET x == read_exact(r, 2)
    IN  IF x.ok THEN [x EXCEPT !.val = x.val[1] * 256 + x.val[2]] ELSE x

(* util::read::read_u32_be and read_u64_be, as digits *)
read_u32_be(r) == read_exact(r, 4)

read_u64_be(r) == read_exact(r, 8)

(* A reader over a byte slice, as &header_bytes[..] is. *)
slice_reader(b) == [data |-> b, pos |-> 0]

(* u64::div_ceil *)
div_ceil(a, b) == (a + b - 1) \div b

---------------------------------------------------------------------------
(* NKitHeader::read_from, try_read_from and is_junk_block *)

(* The size of a double-layer DVD, in the model's unit: disc.rs has        *)
(* 8,511,160,320 bytes; the model counts in units that keep the bitmap a   *)
(* few bytes long.                                                         *)
DL_DVD_SIZE == 25

FlagSize == 1

FlagCrc32 == 2

FlagMd5 == 4

FlagSha1 == 8

FlagXxhash64 == 16

FlagKey == 32

(* flags & bit != 0, for a bit given as its value *)
HasFlag(flags, bit) == (flags \div bit) % 2 = 1

NKIT_HEADER_V1_FLAGS == FlagCrc32 + FlagMd5 + FlagSha1 + FlagXxhash64

calc_header_size(version, flags, key_len) ==
    8 + (IF version >= 2 THEN 4 ELSE 0)
      + (IF HasFlag(flags, FlagSize) THEN 8 ELSE 0)
      + (IF HasFlag(flags, FlagCrc32) THEN 4 ELSE 0)
      + (IF HasFlag(flags, FlagMd5) THEN 16 ELSE 0)
      + (IF HasFlag(flags, FlagSha1) THEN 20 ELSE 0)
      + (IF HasFlag(flags, FlagXxhash64) THEN 8 ELSE 0)
      + (IF HasFlag(flags, FlagKey) THEN key_len + 2 ELSE 0)

(* "NKIT  v" *)
VERSION_PREFIX == <<78, 75, 73, 84, 32, 32, 118>>

(* (flags & bit != 0).then(|| read n bytes).transpose() on the reader      *)
(* inner: the Option read, or the error of the read.                       *)
read_field(inner, flags, bit, n) ==
    IF ~HasFlag(flags, bit) THEN [ok |-> TRUE, val |-> None, r |-> inner]
    ELSE LET x == read_exact(inner, n)
         IN  [x EXCEPT !.val = Some(x.val)]

(* The result of read_from and the reader it leaves. *)
Returned(res, r) == [res |-> res, r |-> r]

(* Vec allocation of a count that wrapped around zero: more than           *)
(* isize::MAX bytes, which no allocation gives.                            *)
capacity_overflow == Panic

read_junk_bits_rounding_down(r, h, has_junk) ==
    IF ~has_junk THEN Returned(Ok([h EXCEPT !.junk_bits = None]), r)
    ELSE IF h.block_size = 0 THEN Returned(Panic, r)
    ELSE LET n == div_ceil(DL_DVD_SIZE \div h.block_size, 8)
             v == read_exact(r, n)
         IN  IF ~v.ok THEN Returned(Err(UnexpectedEof), v.r)
             ELSE Returned(Ok([h EXCEPT !.junk_bits = Some(v.val)]), v.r)

(* read_from from the junk bits on: the header h is complete but for them. *)
read_junk_bits(r, h, has_junk) ==
    IF ~has_junk THEN Returned(Ok([h EXCEPT !.junk_bits = None]), r)
    ELSE IF h.block_size = 0 THEN Returned(Panic, r)
    ELSE LET n == div_ceil(div_ceil(DL_DVD_SIZE, h.block_size), 8)
             v == read_exact(r, n)
         IN  IF ~v.ok THEN Returned(Err(UnexpectedEof), v.r)
             ELSE Returned(Ok([h EXCEPT !.junk_bits = Some(v.val)]), v.r)

read_fields_sha1_before_md5(r, version, header_bytes, bs, has_junk) ==
    LET inner == slice_reader(header_bytes)
        flags == IF version = 1
                 THEN [ok |-> TRUE, val |-> NKIT_HEADER_V1_FLAGS, r |-> inner]
                 ELSE read_u16_be(inner)
    IN  IF ~flags.ok THEN Returned(Err(UnexpectedEof), r)
        ELSE LET size == read_field(flags.r, flags.val, FlagSize, 8)
                 crc32 == read_field(size.r, flags.val, FlagCrc32, 4)
                 sha1 == read_field(crc32.r, flags.val, FlagSha1, 20)
                 md5 == read_field(sha1.r, flags.val, FlagMd5, 16)
                 xxhash64 == read_field(md5.r, flags.val, FlagXxhash64, 8)
             IN  IF ~(size.ok /\ crc32.ok /\ md5.ok /\ sha1.ok /\ xxhash64.ok)
                 THEN Returned(Err(UnexpectedEof), r)
                 ELSE read_junk_bits(r,
                         [version |-> version, flags |-> flags.val, size |-> size.val,
                          crc32 |-> crc32.val, md5 |-> md5.val, sha1 |-> sha1.val,
                          xxhash64 |-> xxhash64.val, junk_bits |-> None,
                          block_size |-> bs],
                         has_junk)

(* read_from from the flags on: header_bytes holds the declared header. *)
read_fields(r, version, header_bytes, bs, has_junk) ==
    LET inner == slice_reader(header_bytes)
        flags == IF version = 1
                 THEN [ok |-> TRUE, val |-> NKIT_HEADER_V1_FLAGS, r |-> inner]
                 ELSE read_u16_be(inner)
    IN  IF ~flags.ok THEN Returned(Err(UnexpectedEof), r)
        ELSE LET size == read_field(flags.r, flags.val, FlagSize, 8)
                 crc32 == read_field(size.r, flags.val, FlagCrc32, 4)
                 md5 == read_field(crc32.r, flags.val, FlagMd5, 16)
                 sha1 == read_field(md5.r, flags.val, FlagSha1, 20)
                 xxhash64 == read_field(sha1.r, flags.val, FlagXxhash64, 8)
             IN  IF ~(size.ok /\ crc32.ok /\ md5.ok /\ sha1.ok /\ xxhash64.ok)
                 THEN Returned(Err(UnexpectedEof), r)
                 ELSE read_junk_bits(r,
                         [version |-> version, flags |-> flags.val, size |-> size.val,
                          crc32 |-> crc32.val, md5 |-> md5.val, sha1 |-> sha1.val,
                          xxhash64 |-> xxhash64.val, junk_bits |-> None,
                          block_size |-> bs],
                         has_junk)

(* read_from once the header size is known.  header_size as usize - 8 and  *)
(* the -= 2 of version 2 go below zero for a declared size under 8 or 10:  *)
(* a build that checks overflow (checks) panics there, another wraps and   *)
(* asks read_vec for nearly 2^64 bytes.                                    *)
read_header(r, version, header_size, bs, has_junk, checks) ==
    LET remaining_header_size == header_size - 8 - (IF version >= 2 THEN 2 ELSE 0)
    IN  IF remaining_header_size < 0
        THEN Returned(IF checks THEN Panic ELSE capacity_overflow, r)
        ELSE LET header_bytes == read_exact(r, remaining_header_size)
             IN  IF ~header_bytes.ok THEN Returned(Err(UnexpectedEof), header_bytes.r)
                 ELSE read_fields(header_bytes.r, version, header_bytes.val, bs, has_junk)

read_from_newer_as_version_2(r, bs, has_junk, checks) ==
    LET version_string == read_exact(r, 8)
    IN  IF ~version_string.ok THEN Returned(Err(UnexpectedEof), version_string.r)
        ELSE IF \/ SubSeq(version_string.val, 1, 7) # VERSION_PREFIX
                \/ version_string.val[8] < 49
                \/ version_string.val[8] > 57
        THEN Returned(Err(InvalidData), version_string.r)
        ELSE LET version == version_string.val[8] - 48
             IN  IF version = 1
                 THEN read_header(version_string.r, version,
                                  calc_header_size(version, NKIT_HEADER_V1_FLAGS, 0) % 65536,
                                  bs, has_junk, checks)
                 ELSE LET header_size == read_u16_be(version_string.r)
                      IN  IF ~header_size.ok
                          THEN Returned(Err(UnexpectedEof), header_size.r)
                          ELSE read_header(header_size.r, version, header_size.val,
                                           bs, has_junk, checks)

(* NKitHeader::read_from: the result and the reader afterwards. *)
read_from(r, bs, has_junk, checks) ==
    LET version_string == read_exact(r, 8)
    IN  IF ~version_string.ok THEN Returned(Err(UnexpectedEof), version_string.r)
        ELSE IF \/ SubSeq(version_string.val, 1, 7) # VERSION_PREFIX
                \/ version_string.val[8] < 49
                \/ version_string.val[8] > 57
        THEN Returned(Err(InvalidData), version_string.r)
        ELSE LET version == version_string.val[8] - 48
             IN  IF version = 1
                 THEN read_header(version_string.r, version,
                                  calc_header_size(version, NKIT_HEADER_V1_FLAGS, 0) % 65536,
                                  bs, has_junk, checks)
                 ELSE IF version = 2
                 THEN LET header_size == read_u16_be(version_string.r)
                      IN  IF ~header_size.ok
                          THEN Returned(Err(UnexpectedEof), header_size.r)
                          ELSE read_header(header_size.r, version, header_size.val,
                                           bs, has_junk, checks)
                 ELSE Returned(Err(InvalidData), version_string.r)

(* "NKIT" *)
NKIT == <<78, 75, 73, 84>>

(* NKitHeader::try_read_from: the Option returned, whether the call        *)
(* panicked instead, and the reader afterwards.                            *)
try_read_from(r, bs, has_junk, checks) ==
    LET magic == read_exact(r, 4)
    IN  IF ~magic.ok THEN [res |-> None, panicked |-> FALSE, r |-> magic.r]
        ELSE IF magic.val = NKIT
        THEN LET x == read_from([magic.r EXCEPT !.pos = magic.r.pos - 4], bs, has_junk, checks)
             IN  [res |-> IF x.res.ok THEN Some(x.res.val) ELSE None,
                  panicked |-> x.res = Panic, r |-> x.r]
        ELSE [res |-> None, panicked |-> FALSE, r |-> magic.r]

(* bit k (0: least significant) of the byte b *)
Bit(b, k) == (b \div (2 ^ k)) % 2

is_junk_block_lsb_first(h, blk) ==
    IF ~h.junk_bits.some THEN None
    ELSE IF blk \div 8 >= Len(h.junk_bits.val) THEN None
    ELSE Some(Bit(h.junk_bits.val[(blk \div 8) + 1], blk % 8) # 0)

(* NKitHeader::is_junk_block *)
is_junk_block(h, blk) ==
    IF ~h.junk_bits.some THEN None
    ELSE IF blk \div 8 >= Len(h.junk_bits.val) THEN None
    ELSE Some(Bit(h.junk_bits.val[(blk \div 8) + 1], 7 - (blk % 8)) # 0)

---------------------------------------------------------------------------
(* The callers' inputs *)

MaxNodes == 2       \* nodes after the root in the buffers given to find and iter
MaxPathLen == 3     \* characters of a path given to find
MaxStrLen == 4      \* bytes of the string tables given to get_name
MaxNewNodes == 2    \* nodes in the buffers given to Fst::new alone
MaxTreeNodes == 3   \* nodes after the root in the well-formed tables
MaxVal == 2         \* distinct values of a size or a hash in an NKit header

Node(k, no, o, l) == [kind |-> k, name_offset |-> no, offset |-> o, length |-> l]

(* "a", "b" and a name that is not Shift-JIS (0xFF), each NUL-terminated. *)
FindTable == <<97, 0, 98, 0, 255, 0>>

FindNameOffs == {0, 2, 4}

(* Any nodes: files and directories with any length field, also a         *)
(* directory that ends at or before its own index; n nodes after the root. *)
FindBuffers(n) ==
    {NodesBytes(<<Node(1, 0, 0, n + 1)>> \o ns) \o FindTable :
        ns \in [1..n -> {Node(k, no, 0, l) :
                   k \in {0, 1}, no \in FindNameOffs, l \in 0..(n + 1)}]}

(* '/', 'a' and 'B' *)
PathChars == {47, 97, 66}

Paths == SeqsBetween(PathChars, 0, MaxPathLen)

(* NUL, 'A', 'a', the lead byte 0x83, the half-width katakana 0xB1 and 0xFF. *)
NameBytes == {0, 65, 97, 131, 177, 255}

(* A root and one node, whose name offset lies in, at the end of or past   *)
(* the string table of n bytes.                                            *)
NameBuffers(n) ==
    {NodesBytes(<<Node(1, 0, 0, 2), Node(0, no, 0, 0)>>) \o st :
        st \in [1..n -> NameBytes], no \in 0..(n + 1)}

(* Buffers for Fst::new: a root of any kind that claims 0..n+1 nodes or    *)
(* 2^24 of them, n nodes in all and up to two bytes after them; new is     *)
(* given every prefix of one.                                              *)
NewBuffers(n) ==
    {NodesBytes(<<r>> \o ns) \o st :
        r \in {Node(k, 0, 0, l) : k \in {0, 1, 2}, l \in 0..(n + 1) \cup {16777216}},
        ns \in [1..(n - 1) -> {Node(0, 0, 0, 0), Node(1, 1, 0, 1), Node(1, 3, 0, 3)}],
        st \in SeqsBetween({0, 97}, 0, 2)}

(* "a", "A", "b" and "/", NUL-terminated; offset 1 is the empty name. *)
TreeTable == <<97, 0, 65, 0, 98, 0, 47, 0>>

TreeNameOffs == {0, 1, 2, 4, 6}

TreeFileLen == 7

(* The nodes i..n of a table of n nodes after the root that satisfies the *)
(* invariants of the data model: a directory ends after its own index and  *)
(* no later than the node count n + 1, every name is in range and valid    *)
(* Shift-JIS.                                                              *)
RECURSIVE TreeNodes(_, _)
TreeNodes(i, n) ==
    IF i > n THEN {<<>>}
    ELSE {<<x>> \o rest :
             x \in {Node(0, no, 0, TreeFileLen) : no \in TreeNameOffs}
                   \cup {Node(1, no, 0, l) : no \in TreeNameOffs, l \in (i + 1)..(n + 1)},
             rest \in TreeNodes(i + 1, n)}

(* Such tables of n nodes after the root, a directory that ends at the     *)
(* node count.                                                             *)
TreeBuffers(n) ==
    {NodesBytes(<<Node(1, 0, 0, n + 1)>> \o ns) \o TreeTable : ns \in TreeNodes(1, n)}

Opt(S) == {None} \cup {Some(v) : v \in S}

(* Headers as read_from builds them; the hashes stand for their bytes. *)
Headers ==
    [size : Opt(1..MaxVal), crc32 : Opt(1..MaxVal), md5 : Opt(1..MaxVal),
     sha1 : Opt(1..MaxVal), xxhash64 : Opt(1..MaxVal),
     junk_bits : {None, Some(<<128>>)}]

(* The DiscMeta of a container before the header is applied. *)
Metas ==
    [needs_hash_recovery : BOOLEAN, lossless : BOOLEAN, disc_size : Opt(1..MaxVal),
     crc32 : Opt({MaxVal}), md5 : Opt({MaxVal}), sha1 : Opt({MaxVal}),
     xxhash64 : Opt({MaxVal})]

---------------------------------------------------------------------------
(* Initial states *)

IdleFst == buf = <<>> /\ aligned = TRUE /\ fst = Err("")

IdleName == arg = 0 /\ name_res = Err("")

IdleIter == it_idx = 0 /\ it_out = <<>> /\ it_done = FALSE

IdleFind ==
    /\ path = <<>> /\ split = <<>> /\ current = <<>> /\ idx = 0
    /\ stop_at = None /\ trail = <<>> /\ find_res = None

DefaultMeta ==
    [needs_hash_recovery |-> FALSE, lossless |-> FALSE, disc_size |-> None,
     crc32 |-> None, md5 |-> None, sha1 |-> None, xxhash64 |-> None]

NoHeader ==
    [size |-> None, crc32 |-> None, md5 |-> None, sha1 |-> None,
     xxhash64 |-> None, junk_bits |-> None]

IdleNkit == hdr = NoHeader /\ meta = DefaultMeta /\ meta0 = DefaultMeta /\ meta1 = DefaultMeta

(* The threads of convert_and_verify as they are spawned: n digest         *)
(* workers and the writer, each waiting on its empty channel.              *)
Spawned(n) ==
    /\ m_pc = "loop" /\ m_i = 1 /\ total_read = 0 /\ arc = [off |-> 0, len |-> 0]
    /\ w_tx = TRUE /\ w_chan = <<>> /\ w_thread = "recv"
    /\ w_data = [off |-> 0, len |-> 0] /\ w_recvd = <<>> /\ total_written = 0
    /\ digest_threads = [k \in 1..n |-> [tx |-> TRUE, chan |-> <<>>, st |-> "recv",
                                          recvd |-> <<>>]]

IdlePipe == disc_size = 0 /\ md5_arg = FALSE /\ file = FALSE /\ Spawned(0)

NoResults == read_res = Err("") /\ try_res = None /\ block = 0 /\ junk_res = None

IdleRead ==
    /\ reader = slice_reader(<<>>) /\ reader0 = reader
    /\ block_size = 1 /\ has_junk_bits = FALSE
    /\ NoResults

IdleExtract == path_segments = <<>> /\ created = <<>>

InitRest ==
    /\ pc = "start"
    /\ fst = Err("")
    /\ IdleName /\ IdleIter /\ IdleFind /\ IdleNkit /\ IdleRead /\ IdlePipe /\ IdleExtract

Init ==
    /\ \E n \in 0..MaxNodes : buf \in FindBuffers(n)
    /\ aligned = TRUE
    /\ InitRest

InitNew ==
    /\ \E n \in 1..MaxNewNodes : \E b \in NewBuffers(n) :
          \E keep \in 0..Len(b) : buf = SubSeq(b, 1, keep)
    /\ aligned \in BOOLEAN
    /\ InitRest

InitName ==
    /\ \E n \in 1..MaxStrLen : buf \in NameBuffers(n)
    /\ aligned = TRUE
    /\ InitRest

InitTree ==
    /\ \E n \in 0..MaxTreeNodes : buf \in TreeBuffers(n)
    /\ aligned = TRUE
    /\ InitRest

---------------------------------------------------------------------------
(* Actions *)

(* let fst = Fst::new(&buf) *)
New ==
    /\ pc = "start"
    /\ fst' = new(buf, aligned)
    /\ pc' = IF fst'.ok THEN "ready" ELSE IF fst' = Panic THEN "panic" ELSE "err"
    /\ UNCHANGED <<buf, aligned, nameVars, iterVars, findVars, nkitVars, readVars, pipeVars, extractVars>>

(* fst.get_name(&fst.nodes[i]) *)
GetName ==
    /\ pc = "ready"
    /\ \E i \in 0..(Len(fst.val.nodes) - 1) :
          /\ arg' = i
          /\ name_res' = get_name(fst.val, fst.val.nodes[i + 1])
    /\ pc' = "named"
    /\ UNCHANGED <<fstVars, iterVars, findVars, nkitVars, readVars, pipeVars, extractVars>>

(* let it = fst.iter(), also while an earlier iterator is in use *)
Iter ==
    /\ pc \in {"ready", "iter"}
    /\ it_idx' = iter.idx
    /\ it_out' = <<>>
    /\ it_done' = FALSE
    /\ pc' = "iter"
    /\ UNCHANGED <<fstVars, nameVars, findVars, nkitVars, readVars, pipeVars, extractVars>>

(* it.next() *)
IterNext ==
    /\ pc = "iter"
    /\ LET r == next(fst.val, [idx |-> it_idx])
       IN  /\ it_idx' = r.it.idx
           /\ it_out' = IF r.item.some THEN Append(it_out, r.item.val) ELSE it_out
           /\ it_done' = ~r.item.some
    /\ UNCHANGED <<pc, fstVars, nameVars, findVars, nkitVars, readVars, pipeVars, extractVars>>

(* The locals of find as one record, and back. *)
Locals ==
    [status |-> IF pc = "find" THEN "run" ELSE pc, split |-> split, current |-> current,
     idx |-> idx, stop_at |-> stop_at, trail |-> trail, res |-> find_res]

SetLocals(l) ==
    /\ pc' = IF l.status = "run" THEN "find" ELSE l.status
    /\ split' = l.split
    /\ current' = l.current
    /\ idx' = l.idx
    /\ stop_at' = l.stop_at
    /\ trail' = l.trail
    /\ find_res' = l.res

(* fst.find(p): up to the loop *)
FindStart(p) ==
    /\ path' = p
    /\ SetLocals(find_begin(p))
    /\ UNCHANGED <<fstVars, iterVars, nkitVars, readVars, pipeVars, extractVars>>

(* fst.find(p) for a path the caller chose *)
Find ==
    /\ pc = "ready"
    /\ \E p \in Paths : FindStart(p)
    /\ UNCHANGED nameVars

(* fst.find: one turn of the loop, or its end *)
FindStep ==
    /\ pc = "find"
    /\ \E l \in {find_step(fst.val, Locals)} : SetLocals(l)
    /\ UNCHANGED <<path, fstVars, nameVars, iterVars, nkitVars, readVars, pipeVars, extractVars>>

Next == New \/ Iter \/ IterNext \/ Find \/ FindStep

Spec == Init /\ [][Next]_vars

(* find alone; its loop is not left waiting: a turn that can run, runs. *)
NextFind == New \/ Find \/ FindStep

SpecFind == Init /\ [][NextFind]_vars /\ WF_vars(FindStep)

(* find on a path of one segment, in tables that satisfy the data model's  *)
(* invariants *)
MaxSegNodes == 3    \* nodes after the root in those tables

(* "a", "A", "b" and a name that is not Shift-JIS, each NUL-terminated. *)
SegTable == <<97, 0, 65, 0, 98, 0, 255, 0>>

SegNameOffs == {0, 2, 4, 6}

(* The nodes i..n of such a table of n nodes after the root: a directory   *)
(* ends after its own index and no later than the node count.              *)
RECURSIVE SegNodes(_, _)
SegNodes(i, n) ==
    IF i > n THEN {<<>>}
    ELSE {<<x>> \o rest :
             x \in {Node(0, no, 0, 0) : no \in SegNameOffs}
                   \cup {Node(1, no, 0, l) : no \in SegNameOffs, l \in (i + 1)..(n + 1)},
             rest \in SegNodes(i + 1, n)}

SegBuffers(n) ==
    {NodesBytes(<<Node(1, 0, 0, n + 1)>> \o ns) \o SegTable : ns \in SegNodes(1, n)}

(* "a", "/a", "A/", "/B/", "//b", "", "/" and "ab" *)
SegPaths ==
    {<<97>>, <<47, 97>>, <<65, 47>>, <<47, 66, 47>>, <<47, 47, 98>>, <<>>, <<47>>,
     <<97, 98>>}

InitSegment ==
    /\ \E n \in 0..MaxSegNodes : buf \in SegBuffers(n)
    /\ aligned = TRUE
    /\ InitRest

(* fst.find(p) for a path of one segment *)
FindSegment ==
    /\ pc = "ready"
    /\ \E p \in SegPaths : FindStart(p)
    /\ UNCHANGED nameVars

NextSegment == New \/ FindSegment \/ FindStep

SpecSegment == InitSegment /\ [][NextSegment]_vars

NextNew == New

SpecNew == InitNew /\ [][NextNew]_vars

NextName == New \/ GetName

SpecName == InitName /\ [][NextName]_vars

NextIter == New \/ Iter \/ IterNext

SpecIter == Init /\ [][NextIter]_vars

---------------------------------------------------------------------------
(* Paths of nodes, and find on them *)

(* The items of its whose directory holds index k in its range. *)
Ancestors(its, k) ==
    {j \in 1..Len(its) : is_dir(its[j].node) /\ its[j].idx < k /\ k < length(its[j].node)}

RECURSIVE JoinNames(_, _, _)
JoinNames(its, js, k) ==
    IF js = {} THEN its[k].name.val
    ELSE LET j == CHOOSE x \in js : \A y \in js : x <= y
         IN  its[j].name.val \o <<Slash>> \o JoinNames(its, js \ {j}, k)

(* The '/'-joined path of item k of its: the names of the directories     *)
(* around it, outermost first, then its own name.                          *)
PathOf(its, k) == JoinNames(its, Ancestors(its, k), k)

(* fst.find(path) for the path of a node that a finished iteration gave *)
FindNodePath ==
    /\ pc = "iter" /\ it_done
    /\ \E k \in 1..Len(it_out) :
          /\ \A j \in Ancestors(it_out, it_out[k].idx) \cup {k} : it_out[j].name.ok
          /\ arg' = it_out[k].idx
          /\ FindStart(PathOf(it_out, k))
    /\ UNCHANGED name_res

NextTree == New \/ Iter \/ IterNext \/ FindNodePath \/ FindStep

SpecTree == InitTree /\ [][NextTree]_vars

---------------------------------------------------------------------------
(* NKitHeader::apply on a DiscMeta *)

InitApply ==
    /\ pc = "start"
    /\ hdr \in Headers /\ meta \in Metas /\ meta0 = meta /\ meta1 = DefaultMeta
    /\ IdleFst /\ IdleName /\ IdleIter /\ IdleFind /\ IdleRead /\ IdlePipe /\ IdleExtract

(* header.apply(&mut meta) *)
Apply ==
    /\ pc = "start"
    /\ meta0' = meta
    /\ meta' = apply(hdr, meta)
    /\ pc' = "applied"
    /\ UNCHANGED <<hdr, meta1, fstVars, nameVars, iterVars, findVars, readVars, pipeVars, extractVars>>

(* header.apply(&mut meta) once more, with the same header *)
ApplyAgain ==
    /\ pc = "applied"
    /\ meta1' = meta
    /\ meta' = apply(hdr, meta)
    /\ pc' = "applied2"
    /\ UNCHANGED <<hdr, meta0, fstVars, nameVars, iterVars, findVars, readVars, pipeVars, extractVars>>

NextApply == Apply \/ ApplyAgain

SpecApply == InitApply /\ [][NextApply]_vars

---------------------------------------------------------------------------
(* Reading an NKit header *)

MaxBlockSize == 3   \* the block sizes given to read_from are 1..MaxBlockSize
MaxBlock == 39      \* the blocks asked of is_junk_block are 0..MaxBlock
MaxStart == 2       \* bytes before the header in the reader

(* The byte at offset i of a header after the bytes the input chooses:     *)
(* no two of 256 offsets in a row have the same.                           *)
Pattern(i) == (i * 37 + 11) % 256

U16Bytes(v) == <<v \div 256, v % 256>>

(* start filler bytes, then head, then pattern bytes: total bytes after    *)
(* the filler.                                                             *)
Image(start, head, total) ==
    [i \in 1..(start + total) |->
        IF i <= start THEN 255
        ELSE IF i - start <= Len(head) THEN head[i - start]
        ELSE Pattern(i - start - 1)]

(* "NKIT  v" and three strings one byte away from it. *)
Prefixes == {VERSION_PREFIX} \cup {[VERSION_PREFIX EXCEPT ![k] = 88] : k \in {1, 5, 7}}

(* '/', '0', '1', '2', '3', '9', ':' and 'a' *)
VersionDigits == {47, 48, 49, 50, 51, 57, 58, 97}

(* Flag words of version 2: no field, one, some, all, with the key bit and *)
(* with a bit that selects no field.                                       *)
FlagWords == {0, 1, 2, 12, 16, 31, 33, 261}

(* Header sizes a version 2 header may declare with the flag word fl:      *)
(* less than the ten bytes before the flags, less than its fields need,    *)
(* what they need, and more.                                               *)
HeaderSizes(fl) ==
    LET exact == calc_header_size(2, fl, 0)
    IN  {0, 9, 10, 11, exact - 1, exact, exact + 3}

(* Lengths of the input: cut inside the version string, the header size,   *)
(* the flags, the fields or the bitmap, or whole and longer.               *)
Totals(hs, n) ==
    {0, 3, 4, 7, 8, 9, 10, 11, 12} \cup {hs - 1, hs, hs + n - 1, hs + n, hs + n + 1}

InitRead ==
    /\ pc = "start"
    /\ block_size \in 1..MaxBlockSize
    /\ \E prefix \in Prefixes, d \in VersionDigits, start \in {0, MaxStart} :
          \E fl \in IF d = 50 THEN FlagWords ELSE {0} :
          \E hs \in IF d = 50 THEN HeaderSizes(fl) ELSE {56} :
             \E total \in Totals(hs, div_ceil(div_ceil(DL_DVD_SIZE, block_size), 8)) :
                /\ reader = [data |-> Image(start,
                                            prefix \o <<d>> \o
                                              (IF d = 50 THEN U16Bytes(hs) \o U16Bytes(fl)
                                                         ELSE <<>>),
                                            total),
                             pos |-> start]
    /\ reader0 = reader
    /\ has_junk_bits \in BOOLEAN
    /\ NoResults
    /\ IdleFst /\ IdleName /\ IdleIter /\ IdleFind /\ IdleNkit /\ IdlePipe /\ IdleExtract

(* NKitHeader::read_from(&mut reader, block_size, has_junk_bits) *)
ReadFrom ==
    /\ pc = "start"
    /\ \E checks \in BOOLEAN :
       LET x == read_from(reader, block_size, has_junk_bits, checks)
       IN  /\ read_res' = x.res
           /\ reader' = x.r
           /\ pc' = IF x.res.ok THEN "read" ELSE IF x.res = Panic THEN "read_panic"
                                                                 ELSE "read_err"
    /\ UNCHANGED <<reader0, block_size, has_junk_bits, try_res,
                   block, junk_res, fstVars, nameVars, iterVars, findVars, nkitVars, pipeVars, extractVars>>

(* NKitHeader::try_read_from(&mut reader, block_size, has_junk_bits) *)
TryReadFrom ==
    /\ pc = "start"
    /\ \E checks \in BOOLEAN :
       LET x == try_read_from(reader, block_size, has_junk_bits, checks)
       IN  /\ try_res' = x.res
           /\ reader' = x.r
           /\ pc' = IF x.panicked THEN "probe_panic" ELSE "probed"
    /\ UNCHANGED <<reader0, block_size, has_junk_bits, read_res,
                   block, junk_res, fstVars, nameVars, iterVars, findVars, nkitVars, pipeVars, extractVars>>

(* header.is_junk_block(b) *)
IsJunkBlock ==
    /\ pc = "read"
    /\ \E b \in 0..MaxBlock :
          /\ block' = b
          /\ junk_res' = is_junk_block(read_res.val, b)
    /\ pc' = "junk"
    /\ UNCHANGED <<reader, reader0, block_size, has_junk_bits,
                   read_res, try_res, fstVars, nameVars, iterVars, findVars, nkitVars, pipeVars, extractVars>>

NextRead == ReadFrom \/ TryReadFrom \/ IsJunkBlock

SpecRead == InitRead /\ [][NextRead]_vars

---------------------------------------------------------------------------
(* convert_and_verify (nodtool/src/main.rs): the main thread, the writer   *)
(* thread and the digest workers                                           *)

BUFFER_SIZE == 1015808

min(a, b) == IF a < b THEN a ELSE b

read_len_whole_buffer(size, read) == BUFFER_SIZE

(* let read = min(BUFFER_SIZE as u64, disc_size - total_read) *)
read_len(size, read) == min(BUFFER_SIZE, size - read)

(* The digest workers: four with md5, three without. *)
DigestCount(m) == IF m THEN 4 ELSE 3

(* The bound of a digest worker's channel. *)
DigestCap == 1

(* The bound of the writer's channel: sync_channel(1). *)
WriterCap == 1

(* What the other variables of the module do meanwhile: nothing. *)
restVars == <<pc, fstVars, nameVars, iterVars, findVars, nkitVars, readVars, extractVars>>

(* The senders of the digest channels, dropped when the main thread        *)
(* returns or unwinds.                                                     *)
DropAll(d) == [k \in DOMAIN d |-> [d[k] EXCEPT !.tx = FALSE]]

(* The main thread leaves the function early, with an error or a panic:    *)
(* its locals are dropped, the threads are left detached.                  *)
MainLeaves(how) ==
    /\ m_pc' = how
    /\ w_tx' = FALSE
    /\ digest_threads' = DropAll(digest_threads)
    /\ UNCHANGED <<disc_size, md5_arg, file, m_i, total_read, arc,
                   w_chan, w_thread, w_data, w_recvd, total_written, restVars>>

(* while total_read < disc_size { disc.read_exact(&mut buf[..read])?; ... } *)
MainRead ==
    /\ m_pc = "loop"
    /\ IF total_read < disc_size
       THEN \/ /\ arc' = [off |-> total_read, len |-> read_len(disc_size, total_read)]
               /\ m_i' = 1
               /\ m_pc' = "send_digest"
               /\ UNCHANGED <<disc_size, md5_arg, file, total_read, writerVars,
                              digest_threads, restVars>>
            \/ MainLeaves("err")
       ELSE /\ m_pc' = "drop_w_tx"
            /\ UNCHANGED <<disc_size, md5_arg, file, m_i, total_read, arc, writerVars,
                           digest_threads, restVars>>

(* tx.send(arc.clone()) to digest thread m_i: waits while its channel is full *)
MainSendDigest ==
    /\ m_pc = "send_digest"
    /\ LET d == digest_threads[m_i]
       IN  IF d.st = "dead" THEN MainLeaves("err")
           ELSE /\ Len(d.chan) < DigestCap
                /\ digest_threads' =
                      [digest_threads EXCEPT ![m_i].chan = Append(d.chan, arc)]
                /\ IF m_i < Len(digest_threads)
                   THEN m_i' = m_i + 1 /\ m_pc' = m_pc
                   ELSE m_i' = 1 /\ m_pc' = "send_writer"
                /\ UNCHANGED <<disc_size, md5_arg, file, total_read, arc, writerVars,
                               restVars>>

(* w_tx.send(arc)?; total_read += read: waits while the channel is full,   *)
(* fails once the receiver is gone                                         *)
MainSendWriter ==
    /\ m_pc = "send_writer"
    /\ IF w_thread = "dead" THEN MainLeaves("err")
       ELSE /\ Len(w_chan) < WriterCap
            /\ w_chan' = Append(w_chan, arc)
            /\ total_read' = total_read + arc.len
            /\ m_pc' = "loop"
            /\ UNCHANGED <<disc_size, md5_arg, file, m_i, arc, w_tx, w_thread, w_data,
                           w_recvd, total_written, digest_threads, restVars>>

(* drop(w_tx) *)
MainDropWriterTx ==
    /\ m_pc = "drop_w_tx"
    /\ w_tx' = FALSE
    /\ m_pc' = "join_writer"
    /\ UNCHANGED <<disc_size, md5_arg, file, m_i, total_read, arc, w_chan, w_thread,
                   w_data, w_recvd, total_written, digest_threads, restVars>>

(* w_thread.join().unwrap(): waits for the writer, panics if it panicked *)
MainJoinWriter ==
    /\ m_pc = "join_writer"
    /\ w_thread \in {"done", "dead"}
    /\ IF w_thread = "dead" THEN MainLeaves("panic")
       ELSE /\ m_pc' = "drop_tx"
            /\ m_i' = 1
            /\ UNCHANGED <<disc_size, md5_arg, file, total_read, arc, writerVars,
                           digest_threads, restVars>>

(* for (tx, handle) in digest_threads { drop(tx); ... *)
MainDropDigestTx ==
    /\ m_pc = "drop_tx"
    /\ digest_threads' = [digest_threads EXCEPT ![m_i].tx = FALSE]
    /\ m_pc' = "join_digest"
    /\ UNCHANGED <<disc_size, md5_arg, file, m_i, total_read, arc, writerVars, restVars>>

(* ... handle.join().unwrap() ... }: waits for the worker; after the last  *)
(* one the results are used and the function returns Ok                    *)
MainJoinDigest ==
    /\ m_pc = "join_digest"
    /\ digest_threads[m_i].st = "done"
    /\ IF m_i < Len(digest_threads)
       THEN m_i' = m_i + 1 /\ m_pc' = "drop_tx"
       ELSE m_i' = m_i /\ m_pc' = "ok"
    /\ UNCHANGED <<disc_size, md5_arg, file, total_read, arc, writerVars,
                   digest_threads, restVars>>

(* The writer thread: while let Ok(data) = w_rx.recv() *)
WriterRecv ==
    /\ w_thread = "recv"
    /\ w_chan # <<>>
    /\ w_data' = Head(w_chan)
    /\ w_chan' = Tail(w_chan)
    /\ w_recvd' = Append(w_recvd, Head(w_chan))
    /\ w_thread' = "write"
    /\ UNCHANGED <<mainVars, w_tx, total_written, digest_threads, restVars>>

(* The writer thread panics: its receiver is dropped with what it holds. *)
WriterDies ==
    /\ file
    /\ w_thread' = "dead"
    /\ w_chan' = <<>>
    /\ UNCHANGED <<mainVars, w_tx, w_data, w_recvd, total_written, digest_threads,
                   restVars>>

(* file.write_all(data).unwrap(); total_written += data.len() *)
WriterWrite ==
    /\ w_thread = "write"
    /\ \/ /\ total_written' = total_written + w_data.len
          /\ w_thread' = "recv"
          /\ UNCHANGED <<mainVars, w_tx, w_chan, w_data, w_recvd, digest_threads,
                         restVars>>
       \/ WriterDies

(* recv() fails: the channel is empty and its sender dropped *)
WriterRecvFails ==
    /\ w_thread = "recv"
    /\ w_chan = <<>> /\ ~w_tx
    /\ w_thread' = "flush"
    /\ UNCHANGED <<mainVars, w_tx, w_chan, w_data, w_recvd, total_written,
                   digest_threads, restVars>>

(* file.flush().unwrap(); pb.finish() *)
WriterFlush ==
    /\ w_thread = "flush"
    /\ \/ /\ w_thread' = "done"
          /\ UNCHANGED <<mainVars, w_tx, w_chan, w_data, w_recvd, total_written,
                         digest_threads, restVars>>
       \/ WriterDies

(* Digest worker k: while let Ok(data) = rx.recv() { hasher.update(data) } *)
DigestRecv(k) ==
    /\ digest_threads[k].st = "recv"
    /\ digest_threads[k].chan # <<>>
    /\ digest_threads' =
          [digest_threads EXCEPT ![k].chan = Tail(@),
                                 ![k].recvd = Append(@, Head(digest_threads[k].chan))]
    /\ UNCHANGED <<mainVars, writerVars, restVars>>

(* Digest worker k: recv() fails, the worker returns its digest *)
DigestFinish(k) ==
    /\ digest_threads[k].st = "recv"
    /\ digest_threads[k].chan = <<>> /\ ~digest_threads[k].tx
    /\ digest_threads' = [digest_threads EXCEPT ![k].st = "done"]
    /\ UNCHANGED <<mainVars, writerVars, restVars>>

MaxChunks == 3      \* the discs given to convert_and_verify have up to MaxChunks chunks

(* Sizes of no chunk, of whole chunks, and of whole chunks and a byte or   *)
(* all but a byte of one more.                                             *)
DiscSizes ==
    {0} \cup {k * BUFFER_SIZE + r : k \in 0..(MaxChunks - 1), r \in {1, BUFFER_SIZE - 1, BUFFER_SIZE}}

InitPipe ==
    /\ pc = "start"
    /\ disc_size \in DiscSizes
    /\ md5_arg \in BOOLEAN
    /\ file \in BOOLEAN
    /\ Spawned(DigestCount(md5_arg))
    /\ IdleFst /\ IdleName /\ IdleIter /\ IdleFind /\ IdleNkit /\ IdleRead /\ IdleExtract

MainStep ==
    \/ MainRead \/ MainSendDigest \/ MainSendWriter \/ MainDropWriterTx
    \/ MainJoinWriter \/ MainDropDigestTx \/ MainJoinDigest

WriterStep == WriterRecv \/ WriterWrite \/ WriterRecvFails \/ WriterFlush

DigestStep == \E k \in DOMAIN digest_threads : DigestRecv(k) \/ DigestFinish(k)

NextPipe == MainStep \/ WriterStep \/ DigestStep

SpecPipe == InitPipe /\ [][NextPipe]_vars

---------------------------------------------------------------------------
(* extract_partition (nodtool/src/main.rs): the loop over fst.iter() *)

(* let mut new_size = 0; for (_, end) in path_segments.iter() {            *)
(*     if *end == idx { break; } new_size += 1; }                          *)
RECURSIVE new_size(_, _)
new_size(segs, i) ==
    IF segs = <<>> \/ Head(segs).end = i THEN 0 ELSE 1 + new_size(Tail(segs), i)

(* Vec::truncate *)
truncate(v, n) == IF n < Len(v) THEN SubSeq(v, 1, n) ELSE v

remove_ended_last_only(segs, i) ==
    IF segs # <<>> /\ segs[Len(segs)].end = i THEN SubSeq(segs, 1, Len(segs) - 1) ELSE segs

(* Remove ended path segments *)
remove_ended(segs, i) == truncate(segs, new_size(segs, i))

(* let end = if node.is_dir() { node.length() as usize } else { idx + 1 } *)
segment_end(node, i) == IF is_dir(node) THEN length(node) ELSE i + 1

(* Itertools::join: the strings with sep between them *)
RECURSIVE join(_, _)
join(strs, sep) ==
    IF strs = <<>> THEN <<>>
    ELSE IF Len(strs) = 1 THEN strs[1]
    ELSE strs[1] \o <<sep>> \o join(Tail(strs), sep)

(* path_segments.iter().map(|(name, _)| name.as_ref()).join("/") *)
segments_path(segs) == join([k \in 1..Len(segs) |-> segs[k].name], Slash)

(* let fst = Fst::new(..)?; let mut path_segments = Vec::new();            *)
(* for .. in fst.iter(): the loop is entered                               *)
ExtractStart ==
    /\ pc = "ready"
    /\ it_idx' = iter.idx
    /\ path_segments' = <<>>
    /\ created' = <<>>
    /\ pc' = "extract"
    /\ UNCHANGED <<fstVars, nameVars, it_out, it_done, findVars, nkitVars, readVars,
                   pipeVars>>

(* One turn of the loop: the next item, the ended segments removed, the    *)
(* new segment pushed (name? returns the error of a name that does not     *)
(* decode), the directory or the file created (which may fail); after the  *)
(* last item the function returns Ok(()).                                  *)
ExtractNode ==
    /\ pc = "extract"
    /\ LET r == next(fst.val, [idx |-> it_idx])
           item == r.item.val
           kept == remove_ended(path_segments, item.idx)
           pushed == Append(kept, [name |-> item.name.val,
                                   end |-> segment_end(item.node, item.idx)])
       IN  /\ it_idx' = r.it.idx
           /\ IF ~r.item.some
              THEN pc' = "extracted" /\ UNCHANGED <<path_segments, created>>
              ELSE IF ~item.name.ok
              THEN pc' = "extract_err" /\ path_segments' = kept /\ UNCHANGED created
              ELSE /\ path_segments' = pushed
                   /\ \/ /\ created' = Append(created,
                                         [idx |-> item.idx, dir |-> is_dir(item.node),
                                          path |-> segments_path(pushed)])
                         /\ pc' = pc
                      \/ pc' = "extract_err" /\ UNCHANGED created
    /\ UNCHANGED <<fstVars, nameVars, it_out, it_done, findVars, nkitVars, readVars,
                   pipeVars>>

MaxExtractNodes == 3

(* "a" and "b", NUL-terminated, and a name that is not Shift-JIS. *)
ExtractTable == <<97, 0, 98, 0, 255, 0>>

ExtractNameOffs == {0, 2, 4}

(* The nodes i..(e - 1) of a well-nested table: a file, or a directory     *)
(* that ends at l with its subtree i + 1..(l - 1) inside it; an empty      *)
(* directory ends at i + 1, and directories may end together.              *)
RECURSIVE ExtractNodes(_, _)
ExtractNodes(i, e) ==
    IF i >= e THEN {<<>>}
    ELSE {<<Node(0, no, 0, 0)>> \o rest :
             no \in ExtractNameOffs, rest \in ExtractNodes(i + 1, e)}
         \cup UNION {{<<Node(1, no, 0, l)>> \o inner \o rest :
                         no \in ExtractNameOffs, inner \in ExtractNodes(i + 1, l),
                         rest \in ExtractNodes(l, e)} : l \in (i + 1)..e}

(* Such tables of n nodes after the root. *)
ExtractBuffers(n) ==
    {NodesBytes(<<Node(1, 0, 0, n + 1)>> \o ns) \o ExtractTable :
        ns \in ExtractNodes(1, n + 1)}

InitExtract ==
    /\ \E n \in 0..MaxExtractNodes : buf \in ExtractBuffers(n)
    /\ aligned = TRUE
    /\ InitRest

NextExtract == New \/ ExtractStart \/ ExtractNode

SpecExtract == InitExtract /\ [][NextExtract]_vars

---------------------------------------------------------------------------
(* Properties of the file system table *)

NodeCount(f) == Len(f.nodes)

(* Node i (0-based) of f. *)
NodeAt(f, i) == f.nodes[i + 1]

(* The invariants the data model states for an FST. *)
RootIsDir(f) == NodeCount(f) >= 1 /\ is_dir(NodeAt(f, 0))

DirEndsInRange(f) ==
    \A i \in 0..(NodeCount(f) - 1) :
        is_dir(NodeAt(f, i)) => i < length(NodeAt(f, i)) /\ length(NodeAt(f, i)) <= NodeCount(f)

NameOffsetsInRange(f) ==
    \A i \in 0..(NodeCount(f) - 1) : NodeAt(f, i).name_offset < Len(f.string_table)

FstInvariants(f) == RootIsDir(f) /\ DirEndsInRange(f) /\ NameOffsetsInRange(f)

(* Index i lies in the open subtree range of the directory at index d. *)
InSubtree(f, d, i) == d < i /\ i < length(NodeAt(f, d))

(* A directory that starts inside another one also ends inside it. *)
ProperlyNested(f) ==
    \A d, e \in 0..(NodeCount(f) - 1) :
        is_dir(NodeAt(f, d)) /\ is_dir(NodeAt(f, e)) /\ InSubtree(f, d, e)
            => length(NodeAt(f, e)) <= length(NodeAt(f, d))

(* Every name after the root decodes, is not empty and holds no '/'. *)
NamesPlain(f) ==
    \A i \in 1..(NodeCount(f) - 1) :
        LET name == get_name(f, NodeAt(f, i))
        IN  /\ name.ok
            /\ name.val # <<>>
            /\ \A j \in 1..Len(name.val) : name.val[j] # Slash

(* The directory whose children include node i: the innermost one around it. *)
Parent(f, i) ==
    LET ds == {d \in 0..(NodeCount(f) - 1) : is_dir(NodeAt(f, d)) /\ InSubtree(f, d, i)}
    IN  IF ds = {} THEN 0 ELSE CHOOSE d \in ds : \A e \in ds : e <= d

(* No two children of one directory have names equal but for ASCII case. *)
SiblingsDistinct(f) ==
    \A i, j \in 1..(NodeCount(f) - 1) :
        i < j /\ Parent(f, i) = Parent(f, j)
            => ~eq_ignore_ascii_case(get_name(f, NodeAt(f, i)).val,
                                     get_name(f, NodeAt(f, j)).val)

(* C1: find on a multi-segment path never returns a node outside the       *)
(* subtree range (i, node_i.length) of the directory matched for the       *)
(* segment before the last one.  Stated here for tables that satisfy the   *)
(* data model's invariants and matches that are directories; the code      *)
(* breaks it even there, because the stop bound it sets is                 *)
(* node.length + idx + 1 instead of node.length.                           *)
C1_FindStaysInMatchedDirectory ==
    (/\ pc = "found"
     /\ trail # <<>>
     /\ FstInvariants(fst.val)
     /\ \A t \in 1..Len(trail) : is_dir(NodeAt(fst.val, trail[t])))
        => InSubtree(fst.val, trail[Len(trail)], find_res.val.idx)

(* C2 as stated: for a table that satisfies the data model's invariants,   *)
(* find on the path of a node that iter gave returns that node.  Stated    *)
(* here even with properly nested directories and plain names; two         *)
(* children of one directory with the same name refute it.                 *)
C2_FindReturnsEveryIteratedNode ==
    (/\ pc \in {"found", "notfound"}
     /\ FstInvariants(fst.val) /\ ProperlyNested(fst.val) /\ NamesPlain(fst.val))
        => find_res = Some([idx |-> arg, node |-> NodeAt(fst.val, arg)])

(* C2 amended: if moreover no two children of one directory have names     *)
(* that are equal under ASCII case-insensitive comparison, find on the     *)
(* path of node k returns index k and node k, for every node k that iter   *)
(* gave; so the nodes found for the paths of the nodes in a directory's    *)
(* range are exactly the nodes iter gave in that range.                    *)
C2_FindReturnsEveryIteratedNodeOfDistinctSiblings ==
    (/\ pc \in {"found", "notfound"}
     /\ FstInvariants(fst.val) /\ ProperlyNested(fst.val) /\ NamesPlain(fst.val)
     /\ SiblingsDistinct(fst.val))
        => /\ pc = "found"
           /\ find_res = Some([idx |-> arg, node |-> NodeAt(fst.val, arg)])
           /\ arg \in {it_out[j].idx : j \in 1..Len(it_out)}

(* A node two directories deep, in a table with distinct sibling names, was found by its path. *)
C2_Witness ==
    /\ pc = "found"
    /\ FstInvariants(fst.val) /\ ProperlyNested(fst.val) /\ NamesPlain(fst.val)
    /\ SiblingsDistinct(fst.val)
    /\ Len(trail) = 2
    /\ find_res.val.idx = arg
    /\ \E i \in 1..(NodeCount(fst.val) - 1) :
          i # arg /\ get_name(fst.val, NodeAt(fst.val, i)) = get_name(fst.val, NodeAt(fst.val, arg))

(* C3: every Fst that Fst::new returns satisfies the invariants of the     *)
(* data model (the root is a directory, every directory ends after its own *)
(* index and no later than the node count, every name offset lies in the   *)
(* string table); a buffer that breaks one is rejected.                    *)
C3_NewReturnsOnlyValidTables ==
    pc = "ready" => FstInvariants(fst.val)

(* C4: Fst::new splits the buffer by the root's length N: on success there *)
(* are N nodes, they are the first N*12 bytes, the string table is the     *)
(* rest and is not empty; a buffer shorter than a node, or with N*12 at or *)
(* past its end, gives an error; no buffer makes it panic.                 *)
C4_NewSplitsAtRootLength ==
    /\ pc # "panic"
    /\ pc = "ready" =>
          /\ NodeCount(fst.val) = U32(buf, 9)
          /\ Len(NodesBytes(fst.val.nodes)) = U32(buf, 9) * NodeSize
          /\ NodesBytes(fst.val.nodes) \o fst.val.string_table = buf
          /\ fst.val.string_table # <<>>
    /\ (pc # "start" /\ Len(buf) < NodeSize) => pc = "err"
    /\ (pc # "start" /\ Len(buf) >= NodeSize /\ U32(buf, 9) * NodeSize >= Len(buf))
          => pc = "err"

(* A buffer of two nodes and a string table was split. *)
C4_Witness ==
    /\ pc = "ready"
    /\ NodeCount(fst.val) = 2
    /\ Len(fst.val.string_table) = 2
    /\ Len(buf) = 2 * NodeSize + 2

(* C5: an iterator gives the items (index, node, name result) of the       *)
(* indices 1, 2, ... in order, each once, up to the last node, and only    *)
(* then None; a name that fails does not end or skip anything; a new       *)
(* iter() starts at index 1 again.                                         *)
C5_IterGivesEveryNodeInOrder ==
    pc = "iter" =>
        /\ it_idx = Len(it_out) + 1
        /\ Len(it_out) <= NodeCount(fst.val) - 1
        /\ it_done => Len(it_out) = NodeCount(fst.val) - 1
        /\ \A j \in 1..Len(it_out) :
              /\ it_out[j].idx = j
              /\ it_out[j].node = NodeAt(fst.val, j)
              /\ it_out[j].name = get_name(fst.val, NodeAt(fst.val, j))

(* An iteration ended after a node whose name failed and a node after it. *)
C5_Witness ==
    /\ pc = "iter" /\ it_done
    /\ Len(it_out) = 2
    /\ ~it_out[1].name.ok
    /\ it_out[2].name.ok

(* The string-table bytes of the name that get_name was asked for. *)
AskedOffset == NodeAt(fst.val, arg).name_offset

(* C6: a name that get_name returns is the decoding of the string-table    *)
(* bytes from the name offset up to, and without, the first NUL at or      *)
(* after it: it holds no NUL character and nothing of what follows the     *)
(* terminator.                                                             *)
C6_NameEndsAtFirstNul ==
    (pc = "named" /\ name_res.ok) =>
        LET st == fst.val.string_table
        IN  \E e \in (AskedOffset + 1)..Len(st) :
               /\ st[e] = 0
               /\ \A j \in (AskedOffset + 1)..(e - 1) : st[j] # 0
               /\ decode(SubSeq(st, AskedOffset + 1, e - 1))
                     = [chars |-> name_res.val, errors |-> FALSE]
               /\ Len(name_res.val) <= e - 1 - AskedOffset
               /\ \A j \in 1..Len(name_res.val) : name_res.val[j] # 0

(* The name of one two-byte character was returned, with a byte after its NUL. *)
C6_Witness ==
    /\ pc = "named" /\ name_res.ok
    /\ AskedOffset = 0
    /\ name_res.val = <<12450>>
    /\ fst.val.string_table[3] = 0
    /\ Len(fst.val.string_table) > 3

(* C7: get_name gives the out-of-bounds error for a name offset that is    *)
(* not inside the string table, also for an offset equal to its length;    *)
(* the not-NUL-terminated error for an offset inside it with no NUL after; *)
(* the invalid-encoding error for a terminated name that is not Shift-JIS. *)
C7_NameErrorsByCause ==
    pc = "named" =>
        LET st == fst.val.string_table
            terminated == NulPos(st, AskedOffset + 1) # 0
        IN  /\ AskedOffset >= Len(st) => name_res = Err(OutOfBounds)
            /\ (AskedOffset < Len(st) /\ ~terminated) => name_res = Err(NotNulTerminated)
            /\ (AskedOffset < Len(st) /\ terminated /\ ~name_res.ok)
                  => name_res = Err(InvalidEncoding)

HashFields == {"crc32", "md5", "sha1", "xxhash64"}

(* C8: apply overwrites a hash of the DiscMeta only when the header has    *)
(* it: a hash the header lacks keeps the value it had.                     *)
C8_ApplyKeepsHashesTheHeaderLacks ==
    pc = "applied" =>
        \A f \in HashFields : meta[f] = IF hdr[f].some THEN hdr[f] ELSE meta0[f]

(* C9 as stated: after apply, lossless is true exactly when the header has *)
(* a size and junk bits, whatever it was before.                           *)
C9_LosslessIffSizeAndJunkBits ==
    pc = "applied" => (meta.lossless <=> (hdr.size.some /\ hdr.junk_bits.some))

(* C9 amended: after apply, lossless is true exactly when it was true      *)
(* before or the header has a size and junk bits; apply never clears it.   *)
C9_LosslessKeptOrSetBySizeAndJunkBits ==
    pc = "applied" =>
        (meta.lossless <=> (meta0.lossless \/ (hdr.size.some /\ hdr.junk_bits.some)))

(* A header without junk bits was applied to a DiscMeta that was lossless. *)
C9_Witness ==
    /\ pc = "applied"
    /\ meta0.lossless /\ hdr.size.some /\ ~hdr.junk_bits.some
    /\ meta.lossless

(* C10 as stated: after apply, needs_hash_recovery is true exactly when    *)
(* the header has junk bits, whatever it was before.                       *)
C10_RecoveryIffJunkBits ==
    pc = "applied" => (meta.needs_hash_recovery <=> hdr.junk_bits.some)

(* C10 amended: after apply, needs_hash_recovery is true exactly when it   *)
(* was true before or the header has junk bits; apply never clears it.     *)
C10_RecoveryKeptOrSetByJunkBits ==
    pc = "applied" =>
        (meta.needs_hash_recovery <=> (meta0.needs_hash_recovery \/ hdr.junk_bits.some))

(* A header without junk bits was applied to a DiscMeta that needed hash recovery. *)
C10_Witness ==
    /\ pc = "applied"
    /\ meta0.needs_hash_recovery /\ ~hdr.junk_bits.some
    /\ meta.needs_hash_recovery

(* C11: apply leaves a disc_size the DiscMeta has and takes the header's   *)
(* size only when it has none; applying the same header a second time      *)
(* changes no field of the DiscMeta.                                       *)
C11_ApplyKeepsDiscSizeAndIsIdempotent ==
    /\ pc \in {"applied", "applied2"} =>
          meta.disc_size = IF meta0.disc_size.some THEN meta0.disc_size ELSE hdr.size
    /\ pc = "applied2" => meta = meta1

(* A header was applied twice to a DiscMeta that had a disc size other     *)
(* than the header's and hashes the header lacks, and the first call       *)
(* changed it.                                                             *)
C11_Witness ==
    /\ pc = "applied2"
    /\ meta0.disc_size.some /\ hdr.size.some /\ meta0.disc_size # hdr.size
    /\ meta1 # meta0
    /\ meta = meta1

(* C17: find terminates for every table that Fst::new accepts and every    *)
(* path: once its loop runs, it ends with a node or with not found, also   *)
(* past a directory whose length is not greater than its own index.        *)
C17_FindTerminates == (pc = "find") ~> (pc \in {"found", "notfound"})

(* The children of the root of f whose name decodes and equals seg but for *)
(* ASCII case.                                                             *)
RootChildrenNamed(f, seg) ==
    {i \in 1..(NodeCount(f) - 1) :
        /\ Parent(f, i) = 0
        /\ get_name(f, NodeAt(f, i)).ok
        /\ eq_ignore_ascii_case(get_name(f, NodeAt(f, i)).val, seg)}

(* The one segment of the path: the path without its '/'. *)
Segment == SelectSeq(path, LAMBDA c : c # Slash)

(* C18: in a well-formed table, find on a path of one segment (leading and *)
(* trailing '/' aside) returns the child of the root with the lowest index *)
(* whose name equals the segment but for ASCII case, and not found when    *)
(* there is none: nodes inside a directory that does not match, and nodes  *)
(* whose name does not decode, are passed over.                            *)
C18_FindSegmentReturnsFirstRootChild ==
    (/\ pc \in {"found", "notfound"}
     /\ FstInvariants(fst.val) /\ ProperlyNested(fst.val))
        => LET m == RootChildrenNamed(fst.val, Segment)
           IN  IF m = {} THEN pc = "notfound" /\ find_res = None
               ELSE /\ pc = "found"
                    /\ find_res.val.idx \in m
                    /\ \A i \in m : find_res.val.idx <= i
                    /\ find_res.val.node = NodeAt(fst.val, find_res.val.idx)

(* The third node was found after a directory whose name does not decode   *)
(* and which holds a node of the name asked for.                           *)
C18_Witness ==
    /\ pc = "found"
    /\ FstInvariants(fst.val) /\ ProperlyNested(fst.val)
    /\ find_res.val.idx = 3
    /\ is_dir(NodeAt(fst.val, 1)) /\ length(NodeAt(fst.val, 1)) = 3
    /\ ~get_name(fst.val, NodeAt(fst.val, 1)).ok
    /\ eq_ignore_ascii_case(get_name(fst.val, NodeAt(fst.val, 2)).val, Segment)
    /\ get_name(fst.val, NodeAt(fst.val, 3)).val # Segment

(* C19: find descends only through directories: a node matched for a       *)
(* segment that is not the last one, whose length then bounds the search,  *)
(* is a directory, so no node is returned for a path one of whose earlier  *)
(* segments resolved to a file.                                            *)
C19_FindDescendsOnlyThroughDirectories ==
    \A t \in 1..Len(trail) : is_dir(NodeAt(fst.val, trail[t]))

---------------------------------------------------------------------------
(* Properties of the NKit header *)

(* The bytes the reader held from its position on, before the call. *)
Input == SubSeq(reader0.data, reader0.pos + 1, Len(reader0.data))

(* n bytes of the input from (0-based) offset o. *)
InputAt(o, n) == SubSeq(Input, o + 1, o + n)

(* read_from was called and has returned or panicked. *)
ReadCalled == pc \in {"read", "read_err", "read_panic", "junk"}

GoodPrefix == Len(Input) >= 8 /\ InputAt(0, 7) = VERSION_PREFIX

(* C12: read_from succeeds only for a header whose first 8 bytes are       *)
(* "NKIT  v" and the digit '1' or '2'; 8 bytes with another prefix or      *)
(* another last byte give the InvalidData error and no header.             *)
C12_ReadFromAcceptsOnlyVersions1And2 ==
    ReadCalled =>
        /\ read_res.ok => GoodPrefix /\ Input[8] \in {49, 50}
        /\ (Len(Input) >= 8 /\ ~(GoodPrefix /\ Input[8] \in {49, 50}))
              => read_res = Err(InvalidData)

(* A whole version 2 header with the digit '3' in place of '2' was refused. *)
C12_Witness ==
    /\ pc = "read_err"
    /\ GoodPrefix /\ Input[8] = 51 /\ Len(Input) >= 56
    /\ read_res = Err(InvalidData)

(* The flag set that decides the fields of the header in the input. *)
EffectiveFlags ==
    IF Input[8] = 49 THEN FlagCrc32 + FlagMd5 + FlagSha1 + FlagXxhash64
    ELSE Input[11] * 256 + Input[12]

(* The offset in the input of the field of flag bit: after the version     *)
(* string, the header size and flags of version 2, and the fields before   *)
(* it that are present.                                                    *)
FieldOffset(bit) ==
    (IF Input[8] = 49 THEN 8 ELSE 12)
      + (IF bit > FlagSize /\ HasFlag(EffectiveFlags, FlagSize) THEN 8 ELSE 0)
      + (IF bit > FlagCrc32 /\ HasFlag(EffectiveFlags, FlagCrc32) THEN 4 ELSE 0)
      + (IF bit > FlagMd5 /\ HasFlag(EffectiveFlags, FlagMd5) THEN 16 ELSE 0)
      + (IF bit > FlagSha1 /\ HasFlag(EffectiveFlags, FlagSha1) THEN 20 ELSE 0)

(* The field of flag bit and n bytes as the input gives it. *)
ExpectedField(bit, n) ==
    IF HasFlag(EffectiveFlags, bit) THEN Some(InputAt(FieldOffset(bit), n)) ELSE None

(* C13: in a parsed header each field is present exactly when its bit is   *)
(* in the effective flag set, and the fields are consecutive bytes in the  *)
(* order size(8), crc32(4), md5(16), sha1(20), xxhash64(8).  Version 1 has *)
(* the fixed set {CRC32, MD5, SHA-1, XXH64}: no size, four hashes, the     *)
(* 48 bytes after the version string.  Version 2 has the 16-bit word after *)
(* the 16-bit header size.                                                 *)
C13_FieldsFollowTheFlags ==
    pc \in {"read", "junk"} =>
        LET h == read_res.val
        IN  /\ h.version = Input[8] - 48
            /\ h.flags = EffectiveFlags
            /\ h.size = ExpectedField(FlagSize, 8)
            /\ h.crc32 = ExpectedField(FlagCrc32, 4)
            /\ h.md5 = ExpectedField(FlagMd5, 16)
            /\ h.sha1 = ExpectedField(FlagSha1, 20)
            /\ h.xxhash64 = ExpectedField(FlagXxhash64, 8)
            /\ h.version = 1 =>
                  /\ ~h.size.some
                  /\ h.crc32.some /\ h.md5.some /\ h.sha1.some /\ h.xxhash64.some
                  /\ h.crc32.val \o h.md5.val \o h.sha1.val \o h.xxhash64.val
                        = InputAt(8, 48)
                  /\ ~has_junk_bits => reader.pos = reader0.pos + 8 + 48

(* A version 2 header with all five fields was parsed. *)
C13_Witness ==
    /\ pc = "read"
    /\ read_res.val.version = 2
    /\ read_res.val.flags = 31
    /\ read_res.val.size.some /\ read_res.val.xxhash64.some
    /\ reader0.pos > 0

(* The header size the input declares. *)
DeclaredSize == IF Input[8] = 49 THEN 56 ELSE Input[9] * 256 + Input[10]

(* The least m with m * d >= a. *)
Ceil(a, d) == CHOOSE m \in 0..a : m * d >= a /\ \A k \in 0..(m - 1) : k * d < a

(* C14: a bitmap that read_from returns has                                *)
(* ceil(ceil(DL_DVD_SIZE / block_size) / 8) bytes, those right after the   *)
(* declared header; when none is asked for, junk_bits is absent and the    *)
(* reader stands at the end of the declared header.                        *)
C14_JunkBitsLengthAndPlace ==
    pc \in {"read", "junk"} =>
        LET h == read_res.val
            n == Ceil(Ceil(DL_DVD_SIZE, block_size), 8)
        IN  IF has_junk_bits
            THEN /\ h.junk_bits.some
                 /\ Len(h.junk_bits.val) = n
                 /\ h.junk_bits.val = InputAt(DeclaredSize, n)
                 /\ reader.pos = reader0.pos + DeclaredSize + n
            ELSE /\ ~h.junk_bits.some
                 /\ reader.pos = reader0.pos + DeclaredSize

(* A bitmap of two bytes was read for a block size that does not divide    *)
(* the disc size, after a header that declares more than its fields need.  *)
C14_Witness ==
    /\ pc = "read"
    /\ has_junk_bits /\ DL_DVD_SIZE % block_size # 0
    /\ Len(read_res.val.junk_bits.val) = Ceil(Ceil(DL_DVD_SIZE, block_size), 8)
    /\ read_res.val.version = 2
    /\ DeclaredSize > calc_header_size(2, read_res.val.flags, 0)
    /\ Len(Input) > DeclaredSize + Len(read_res.val.junk_bits.val)

(* C15: is_junk_block(block) is None exactly when the header has no bitmap *)
(* or block / 8 is past its end, and else Some of whether bit              *)
(* 7 - block mod 8 of byte block / 8 is 1, counting from the least         *)
(* significant: the bit block mod 8 places from the most significant one.  *)
C15_JunkBlockReadsBitMsbFirst ==
    pc = "junk" =>
        LET jb == read_res.val.junk_bits
        IN  IF ~jb.some \/ block \div 8 >= Len(jb.val)
            THEN junk_res = None
            ELSE junk_res =
                    Some((jb.val[(block \div 8) + 1] * (2 ^ (block % 8))) % 256 >= 128)

(* A block past the first byte was found to be junk, where the bit at the  *)
(* same place counted from the other end is 0.                             *)
C15_Witness ==
    /\ pc = "junk"
    /\ junk_res = Some(TRUE)
    /\ block >= 8
    /\ Bit(read_res.val.junk_bits.val[(block \div 8) + 1], block % 8) = 0

(* C16: try_read_from never panics, and returns None for every input that  *)
(* does not start with "NKIT" and every one that starts with it and does   *)
(* not parse, a version 2 header that declares fewer than 10 bytes         *)
(* included.                                                               *)
C16_ProbeReturnsNoneAndNeverPanics ==
    /\ pc # "probe_panic"
    /\ (pc = "probed" /\ ~(Len(Input) >= 4 /\ InputAt(0, 4) = NKIT)) => try_res = None
    /\ (pc = "probed" /\ ~(GoodPrefix /\ Input[8] \in {49, 50})) => try_res = None
    /\ (pc = "probed" /\ GoodPrefix /\ Input[8] \in {49, 50} /\ Len(Input) >= 10
           /\ Len(Input) < DeclaredSize) => try_res = None

---------------------------------------------------------------------------
(* Properties of convert_and_verify *)

(* The chunks of a disc of disc_size bytes, in read order: whole buffers   *)
(* and what is left.                                                       *)
Chunks ==
    [k \in 1..((disc_size + BUFFER_SIZE - 1) \div BUFFER_SIZE) |->
        [off |-> (k - 1) * BUFFER_SIZE,
         len |-> IF k * BUFFER_SIZE <= disc_size THEN BUFFER_SIZE
                 ELSE disc_size - (k - 1) * BUFFER_SIZE]]

IsPrefix(s, t) == Len(s) <= Len(t) /\ s = SubSeq(t, 1, Len(s))

(* The main thread has returned or panicked. *)
MainEnded == m_pc \in {"ok", "err", "panic"}

(* What holds of the pipeline whether or not the writer dies: every thread *)
(* gets the chunks in read order, each once; on Ok the writer and the      *)
(* workers have received all of them and have ended, their channels        *)
(* closed; and while the main thread runs, some thread can take a step.    *)
PipelineDelivers ==
    /\ IsPrefix(w_recvd \o w_chan, Chunks)
    /\ \A k \in DOMAIN digest_threads :
          IsPrefix(digest_threads[k].recvd \o digest_threads[k].chan, Chunks)
    /\ m_pc = "ok" =>
          /\ total_read = disc_size
          /\ w_recvd = Chunks /\ total_written = disc_size
          /\ w_thread = "done" /\ ~w_tx /\ w_chan = <<>>
          /\ \A k \in DOMAIN digest_threads :
                /\ digest_threads[k].st = "done" /\ ~digest_threads[k].tx
                /\ digest_threads[k].recvd = Chunks
    /\ ~MainEnded => ENABLED NextPipe

(* C20 as stated: the chunks are min(1015808, disc_size - total_read)      *)
(* bytes and reach every digest worker and the writer in read order; on    *)
(* Ok the writer has received each once, total_written is disc_size, the   *)
(* writer and the workers have ended; nothing deadlocks; and if the writer *)
(* thread dies, the function returns an error.                             *)
C20_PipelineDeliversOrReturnsError ==
    /\ PipelineDelivers
    /\ (MainEnded /\ w_thread = "dead") => m_pc = "err"

(* C20 amended: as stated, but if the writer thread dies the function      *)
(* returns an error only when a send to it follows; when it dies after the *)
(* last chunk was sent, join reports it and the function panics; it never  *)
(* returns Ok and never waits forever.                                     *)
C20_PipelineDeliversOrFailsWithWriter ==
    /\ PipelineDelivers
    /\ (MainEnded /\ w_thread = "dead") => m_pc \in {"err", "panic"}
    /\ m_pc = "panic" => w_thread = "dead" /\ total_read = disc_size
    /\ (m_pc = "err" /\ w_thread = "dead") => total_read < disc_size

(* A disc of three chunks, the last one short, was written and digested by *)
(* four workers.                                                           *)
C20_Witness ==
    /\ m_pc = "ok"
    /\ md5_arg /\ file
    /\ Len(w_recvd) = 3
    /\ w_recvd[3].len < BUFFER_SIZE
    /\ total_written = disc_size

---------------------------------------------------------------------------
(* Properties of extract_partition *)

(* Every name after the root decodes. *)
NamesDecode(f) == \A i \in 1..(NodeCount(f) - 1) : get_name(f, NodeAt(f, i)).ok

(* A well-formed table: the invariants of the data model hold, directories *)
(* nest and every name decodes.                                            *)
WellFormed(f) == FstInvariants(f) /\ ProperlyNested(f) /\ NamesDecode(f)

(* The directories after the root whose subtree range holds node i, the    *)
(* outermost first.  The root, which iteration skips, is the directory     *)
(* files_dir that every path is joined to.                                 *)
EnclosingDirs(f, i) ==
    SelectSeq([d \in 1..(i - 1) |-> d],
              LAMBDA d : is_dir(NodeAt(f, d)) /\ InSubtree(f, d, i))

(* The segment of node i: its name and the index where it ends. *)
TrueSegment(f, i) ==
    [name |-> get_name(f, NodeAt(f, i)).val,
     end |-> IF is_dir(NodeAt(f, i)) THEN length(NodeAt(f, i)) ELSE i + 1]

TrueSegments(f, i) ==
    [k \in 1..Len(EnclosingDirs(f, i)) |-> TrueSegment(f, EnclosingDirs(f, i)[k])]
        \o <<TrueSegment(f, i)>>

(* The path of node i below files_dir: the path of its parent, a '/' and   *)
(* its name.                                                               *)
RECURSIVE TruePath(_, _)
TruePath(f, i) ==
    IF Parent(f, i) = 0 THEN get_name(f, NodeAt(f, i)).val
    ELSE TruePath(f, Parent(f, i)) \o <<Slash>> \o get_name(f, NodeAt(f, i)).val

(* The loop of extract_partition has processed a node: the last one that   *)
(* next() gave.                                                            *)
NodeProcessed == pc \in {"extract", "extract_err"} /\ it_idx >= 2

(* C21: during extract_partition over a well-formed table, when node idx   *)
(* is processed path_segments holds exactly the names (and end indices) of *)
(* the directories after the root whose subtree range contains idx, the    *)
(* outermost first, followed by the node's own; hence every node is        *)
(* created, in order, at the path of its true ancestors, and after the     *)
(* last one all of them have been.                                         *)
C21_StackHoldsTrueAncestors ==
    (pc \in {"extract", "extract_err", "extracted"} /\ WellFormed(fst.val)) =>
        /\ NodeProcessed => path_segments = TrueSegments(fst.val, it_idx - 1)
        /\ \A k \in 1..Len(created) :
              /\ created[k].idx = k
              /\ created[k].dir = is_dir(NodeAt(fst.val, k))
              /\ created[k].path = TruePath(fst.val, k)
        /\ pc = "extracted" => Len(created) = NodeCount(fst.val) - 1

(* Node 3 was created after leaving the directory at 1 and the empty       *)
(* directory at 2 inside it, which both end at 3.                          *)
C21_Witness ==
    /\ pc = "extract" /\ it_idx = 4 /\ WellFormed(fst.val)
    /\ is_dir(NodeAt(fst.val, 1)) /\ length(NodeAt(fst.val, 1)) = 3
    /\ is_dir(NodeAt(fst.val, 2)) /\ length(NodeAt(fst.val, 2)) = 3
    /\ Len(created) = 3
    /\ Len(path_segments) = 1

=============================================================================
